---------------------------- MODULE Spec2Model ----------------------------
(***************************************************************************)
(* The conversation state machine of src/src/App.tsx: the App component's  *)
(* three pieces of React state (messages, input, isLoading), the handlers  *)
(* handleSend and clearChat, the input's onChange, and the continuation of *)
(* handleSend that runs when the awaited generateContent call settles.     *)
(*                                                                         *)
(* Events are processed one at a time and React re-renders between them,   *)
(* so the values a handler closes over (input, isLoading, messages) are    *)
(* the state's values at the time the event is handled.                    *)
(*                                                                         *)
(* A text is a sequence of characters over a two-letter alphabet: one      *)
(* whitespace character and one other character.  Every suspended          *)
(* handleSend invocation is an entry of `requests`, so that more than one  *)
(* outstanding request is a state the model can express.                   *)
(***************************************************************************)
EXTENDS Integers, Sequences, FiniteSets, TLC

VARIABLES
    messages,     \* useState<Message[]>([])            App.tsx:27
    input,        \* useState('')                       App.tsx:28
    isLoading,    \* useState(false)                    App.tsx:29
    requests,     \* handleSend invocations suspended at the await (App.tsx:56)
    now,          \* the value Date.now() returns
    escaped,      \* a failure left handleSend as a rejected promise
    lastOp,       \* history: the last event handled and what it saw
    nAccepted,    \* history: accepted sends since construction, while no clear
    nResolved,    \* history: completions since construction, while no clear
    cleared       \* history: clearChat has run

vars == <<messages, input, isLoading, requests, now, escaped, lastOp,
          nAccepted, nResolved, cleared>>

-----------------------------------------------------------------------------
(* Bounds *)

MaxMsgs == 4      \* conversation length up to which sends are offered
MaxClock == 1     \* clock ticks taken after construction
ClockStart == 9   \* the clock's value at construction

-----------------------------------------------------------------------------
(* Texts *)

WS == " "

\* The drafts typed: empty, whitespace only, plain, and with whitespace at
\* either end of a non-whitespace character.
Texts == {<<>>, <<WS>>, <<WS, WS>>, <<"a">>, <<WS, "a">>, <<"a", WS>>}

\* String.prototype.trim: drop leading and trailing whitespace.
RECURSIVE trimStart(_)
trimStart(s) ==
    IF s = <<>> THEN <<>>
    ELSE IF Head(s) = WS THEN trimStart(Tail(s)) ELSE s

RECURSIVE trimEnd(_)
trimEnd(s) ==
    IF s = <<>> THEN <<>>
    ELSE IF s[Len(s)] = WS THEN trimEnd(SubSeq(s, 1, Len(s) - 1)) ELSE s

trim(s) == trimEnd(trimStart(s))

\* The two fixed strings of handleSend, as texts no draft or reply equals.
FallbackText == <<"F">>
ErrorText == <<"E">>

\* What generateContent resolves with: response.text is a string or undefined.
NoText == [hasText |-> FALSE, text |-> <<>>]
Responses == {NoText} \cup {[hasText |-> TRUE, text |-> t] : t \in {<<>>, <<"h">>}}

\* What generateContent (or reading the response) can throw.
FailureKinds == {"network", "api", "malformed"}

-----------------------------------------------------------------------------
(* Pure parts of handleSend *)

\* Number.prototype.toString: the decimal digits, most significant first.
RECURSIVE toString(_)
toString(n) ==
    IF n < 10 THEN <<n>> ELSE Append(toString(n \div 10), n % 10)

\* Variants of the guard: without the isLoading test, without the trim.
RejectsBlankOnly(inp, loading) == trim(inp) = <<>>
RejectsNoTrim(inp, loading) == inp = <<>> \/ loading

\* if (!input.trim() || isLoading) return;
Rejects(inp, loading) == trim(inp) = <<>> \/ loading

\* Variant of userMessage: the text is stored trimmed.
userMessageTrimmed(inp, t) ==
    [id |-> toString(t), role |-> "user", text |-> trim(inp), timestamp |-> t]

\* const userMessage = { id: Date.now().toString(), role: 'user', text: input, ... }
userMessage(inp, t) ==
    [id |-> toString(t), role |-> "user", text |-> inp, timestamp |-> t]

\* Variant of contents: the history without its last message, as when the
\* request is built from the messages state alone.
contentsWithoutNew(msgs) ==
    [i \in 1..(Len(msgs) - 1) |-> [role |-> msgs[i].role, parts |-> <<msgs[i].text>>]]

\* [...].map(m => ({ role: m.role, parts: [{ text: m.text }] }))
contents(msgs) ==
    [i \in 1..Len(msgs) |-> [role |-> msgs[i].role, parts |-> <<msgs[i].text>>]]

\* Variant of replyText: no default for a missing text.
replyTextNoDefault(response) == response.text

\* Variant of replyText: response.text ?? '<fallback>', which keeps ''.
replyTextNullish(response) ==
    IF response.hasText THEN response.text ELSE FallbackText

\* response.text || '<fallback>': undefined and '' are both falsy.
replyText(response) ==
    IF response.hasText /\ response.text # <<>> THEN response.text ELSE FallbackText

\* const aiMessage = { id: (Date.now() + 1).toString(), role: 'model', ... }
aiMessage(response, t) ==
    [id |-> toString(t + 1), role |-> "model", text |-> replyText(response),
     timestamp |-> t]

\* const errorMessage = { id: (Date.now() + 1).toString(), role: 'model', ... }
errorMessage(t) ==
    [id |-> toString(t + 1), role |-> "model", text |-> ErrorText, timestamp |-> t]

\* Variant of the catch clause: only network errors are handled.
CaughtNetworkOnly(kind) == kind = "network"

\* catch (error): the clause has no filter and does not rethrow.
Caught(kind) == TRUE

\* Variant of the finally block: setIsLoading(false) is the last statement of
\* the try block, so a failure leaves the flag set.
settledIsLoadingTryOnly(outcome) == outcome = "failure"

\* finally { setIsLoading(false) }: runs after the try block and after the catch.
settledIsLoading(outcome) == FALSE

\* Variant of disabled: the draft is not looked at.
disabledWhenLoading == isLoading

\* <button disabled={!input.trim() || isLoading}>
disabled == trim(input) = <<>> \/ isLoading

\* {isLoading && <loading indicator>} inside the non-empty branch of the chat area
indicatorShown == Len(messages) # 0 /\ isLoading

RemoveAt(s, i) == SubSeq(s, 1, i - 1) \o SubSeq(s, i + 1, Len(s))

NoOp == [op |-> "init", trigger |-> "none", wasLoading |-> FALSE,
         response |-> NoText, kind |-> "none"]

-----------------------------------------------------------------------------
(* State machine *)

Init ==
    /\ messages = <<>>
    /\ input = <<>>
    /\ isLoading = FALSE
    /\ requests = <<>>
    /\ now = ClockStart
    /\ escaped = FALSE
    /\ lastOp = NoOp
    /\ nAccepted = 0
    /\ nResolved = 0
    /\ cleared = FALSE

\* handleSend up to the await: the guard, the three state updates, the request.
handleSend(trigger) ==
    /\ lastOp' = [NoOp EXCEPT !.op = "handleSend", !.trigger = trigger,
                               !.wasLoading = isLoading]
    /\ IF Rejects(input, isLoading)
       THEN UNCHANGED <<messages, input, isLoading, requests, nAccepted>>
       ELSE /\ Len(messages) + Len(requests) + 2 <= MaxMsgs
            /\ messages' = Append(messages, userMessage(input, now))
            /\ input' = <<>>
            /\ isLoading' = TRUE
            /\ requests' = Append(requests,
                    [contents |-> contents(Append(messages, userMessage(input, now)))])
            /\ nAccepted' = IF cleared THEN nAccepted ELSE nAccepted + 1
    /\ UNCHANGED <<now, escaped, nResolved, cleared>>

\* <button onClick={handleSend} disabled={...}>: a disabled button gets no click.
onClick ==
    /\ ~disabled
    /\ handleSend("click")

\* onKeyDown={(e) => e.key === 'Enter' && handleSend()}
onKeyDown ==
    \E key \in {"Enter", "a"} :
        IF key = "Enter" THEN handleSend("Enter") ELSE UNCHANGED vars

\* Variant of onChange: the input is disabled while a request is pending.
onChangeWhenIdle ==
    \E v \in Texts :
        /\ ~isLoading
        /\ input' = v
        /\ lastOp' = [NoOp EXCEPT !.op = "onChange", !.wasLoading = isLoading]
        /\ UNCHANGED <<messages, isLoading, requests, now, escaped,
                       nAccepted, nResolved, cleared>>

\* onChange={(e) => setInput(e.target.value)}
onChange ==
    \E v \in Texts :
        /\ input' = v
        /\ lastOp' = [NoOp EXCEPT !.op = "onChange", !.wasLoading = isLoading]
        /\ UNCHANGED <<messages, isLoading, requests, now, escaped,
                       nAccepted, nResolved, cleared>>

\* Variant of clearChat: it does nothing while a request is pending.
clearChatWhenIdle ==
    /\ messages' = IF isLoading THEN messages ELSE <<>>
    /\ lastOp' = [NoOp EXCEPT !.op = "clearChat", !.wasLoading = isLoading]
    /\ cleared' = TRUE
    /\ nAccepted' = 0
    /\ nResolved' = 0
    /\ UNCHANGED <<input, isLoading, requests, now, escaped>>

\* Variant of clearChat: it removes the last message only.
clearChatDropLast ==
    /\ messages' = SubSeq(messages, 1, Len(messages) - 1)
    /\ lastOp' = [NoOp EXCEPT !.op = "clearChat", !.wasLoading = isLoading]
    /\ cleared' = TRUE
    /\ nAccepted' = 0
    /\ nResolved' = 0
    /\ UNCHANGED <<input, isLoading, requests, now, escaped>>

\* Variant of clearChat: it also abandons the pending request.
clearChatCancels ==
    /\ messages' = <<>>
    /\ isLoading' = FALSE
    /\ requests' = <<>>
    /\ lastOp' = [NoOp EXCEPT !.op = "clearChat", !.wasLoading = isLoading]
    /\ cleared' = TRUE
    /\ nAccepted' = 0
    /\ nResolved' = 0
    /\ UNCHANGED <<input, now, escaped>>

\* const clearChat = () => { setMessages([]); }
clearChat ==
    /\ messages' = <<>>
    /\ lastOp' = [NoOp EXCEPT !.op = "clearChat", !.wasLoading = isLoading]
    /\ cleared' = TRUE
    /\ nAccepted' = 0
    /\ nResolved' = 0
    /\ UNCHANGED <<input, isLoading, requests, now, escaped>>

\* Variant of Success: a response to a request sent before a clear is dropped.
SuccessDiscardStale ==
    \E i \in 1..Len(requests), response \in Responses :
        /\ messages' = IF Len(messages) = Len(requests[i].contents)
                        THEN Append(messages, aiMessage(response, now))
                        ELSE messages
        /\ isLoading' = settledIsLoading("success")
        /\ requests' = RemoveAt(requests, i)
        /\ lastOp' = [NoOp EXCEPT !.op = "success", !.wasLoading = isLoading,
                                   !.response = response]
        /\ nResolved' = IF cleared THEN nResolved ELSE nResolved + 1
        /\ UNCHANGED <<input, now, escaped, nAccepted, cleared>>

\* The await returns: aiMessage is appended, then the finally block runs.
Success ==
    \E i \in 1..Len(requests), response \in Responses :
        /\ messages' = Append(messages, aiMessage(response, now))
        /\ isLoading' = settledIsLoading("success")
        /\ requests' = RemoveAt(requests, i)
        /\ lastOp' = [NoOp EXCEPT !.op = "success", !.wasLoading = isLoading,
                                   !.response = response]
        /\ nResolved' = IF cleared THEN nResolved ELSE nResolved + 1
        /\ UNCHANGED <<input, now, escaped, nAccepted, cleared>>

\* The await throws: the catch block appends errorMessage, then finally runs.
Failure ==
    \E i \in 1..Len(requests), kind \in FailureKinds :
        /\ IF Caught(kind)
           THEN /\ messages' = Append(messages, errorMessage(now))
                /\ UNCHANGED escaped
           ELSE /\ escaped' = TRUE
                /\ UNCHANGED messages
        /\ isLoading' = settledIsLoading("failure")
        /\ requests' = RemoveAt(requests, i)
        /\ lastOp' = [NoOp EXCEPT !.op = "failure", !.wasLoading = isLoading,
                                   !.kind = kind]
        /\ nResolved' = IF cleared THEN nResolved ELSE nResolved + 1
        /\ UNCHANGED <<input, now, nAccepted, cleared>>

\* Time passes between events.
Tick ==
    /\ now < ClockStart + MaxClock
    /\ now' = now + 1
    /\ UNCHANGED <<messages, input, isLoading, requests, escaped, lastOp,
                   nAccepted, nResolved, cleared>>

Next ==
    \/ onClick
    \/ onKeyDown
    \/ onChange
    \/ clearChat
    \/ Success
    \/ Failure
    \/ Tick

Spec == Init /\ [][Next]_vars

\* The remote call settles: an outstanding request is eventually resumed.
FairSpec == Spec /\ WF_vars(Success \/ Failure)

-----------------------------------------------------------------------------
(* Vocabulary of the properties *)

\* A text with no non-whitespace character.
IsBlank(s) == \A i \in 1..Len(s) : s[i] = WS

\* A conversation as the sequence of its (role, text) pairs.
RoleText(msgs) == [i \in 1..Len(msgs) |-> <<msgs[i].role, msgs[i].text>>]

\* The (role, text) pairs a request carries.
Carried(req) ==
    [i \in 1..Len(req.contents) |-> <<req.contents[i].role, req.contents[i].parts[1]>>]

CountRole(msgs, r) == Cardinality({i \in 1..Len(msgs) : msgs[i].role = r})

\* The step handles a send attempt, a clear, a completion (the clock stands
\* still while an event is handled).
SendStep == lastOp'.op = "handleSend" /\ now' = now
ClearStep == lastOp'.op = "clearChat" /\ now' = now
SuccessStep == lastOp'.op = "success" /\ now' = now
FailureStep == lastOp'.op = "failure" /\ now' = now
EditStep == lastOp'.op = "onChange" /\ now' = now

-----------------------------------------------------------------------------
(* Properties *)

\* C1: at most one request to the remote API is outstanding in every reachable
\* state, and no step issues a request while one is outstanding: a send
\* attempted during the wait is dropped, and a completion dispatches nothing.
C1_SingleInFlight ==
    /\ [](Len(requests) <= 1)
    /\ [][requests # <<>> => Len(requests') <= Len(requests)]_vars

\* A send was attempted by the Enter key with a sendable draft while a request
\* was outstanding, and one request is outstanding afterwards.
C1_Witness ==
    /\ lastOp.op = "handleSend"
    /\ lastOp.trigger = "Enter"
    /\ lastOp.wasLoading
    /\ ~IsBlank(input)
    /\ Len(requests) = 1

\* C2: a send attempt in a state with pending = true, whatever the draft,
\* leaves the conversation, the pending flag and the outstanding request
\* unchanged.
C2_SendWhilePendingNoOp ==
    [][(SendStep /\ isLoading) =>
          /\ messages' = messages
          /\ isLoading' = isLoading
          /\ requests' = requests]_vars

\* A send was attempted while pending with a sendable draft, after the user
\* message of the pending send, which is still the whole conversation.
C2_Witness ==
    /\ lastOp.op = "handleSend"
    /\ lastOp.wasLoading
    /\ isLoading
    /\ input = <<"a">>
    /\ Len(messages) = 1

\* C3: a send attempt whose draft is empty or whitespace only appends no
\* message, does not set pending and issues no request.
C3_BlankSendNoOp ==
    [][(SendStep /\ IsBlank(input)) =>
          /\ messages' = messages
          /\ isLoading' = isLoading
          /\ requests' = requests]_vars

\* A send was attempted while idle with a whitespace-only draft: the system is
\* still idle and the conversation is still empty.
C3_Witness ==
    /\ lastOp.op = "handleSend"
    /\ ~lastOp.wasLoading
    /\ input = <<WS, WS>>
    /\ ~isLoading
    /\ messages = <<>>
    /\ requests = <<>>

\* C4: with no clear since construction, once the N accepted sends have all
\* resolved the conversation holds exactly 2N messages, N of role user and N
\* of role model, whether they resolved by success or by failure.
C4_LengthIsTwiceResolved ==
    (~cleared /\ nAccepted = nResolved) =>
        /\ Len(messages) = 2 * nResolved
        /\ CountRole(messages, "user") = nResolved
        /\ CountRole(messages, "model") = nResolved

\* Two sends have resolved with no clear, the first by failure and the second
\* by success.
C4_Witness ==
    /\ ~cleared
    /\ nAccepted = 2
    /\ nResolved = 2
    /\ Len(messages) = 4
    /\ messages[2].text = ErrorText
    /\ messages[4].text = <<"h">>

\* C5: after clearChat the conversation is empty whatever the state before
\* it, and a clearChat in a state that clearChat produced changes nothing.
C5_ClearEmptiesIdempotent ==
    /\ [][ClearStep => messages' = <<>>]_vars
    /\ [][(ClearStep /\ lastOp.op = "clearChat") =>
             UNCHANGED <<messages, input, isLoading, requests, escaped>>]_vars

\* clearChat ran on a non-empty state: while a request was pending, which is
\* still pending over the emptied conversation.
C5_Witness ==
    /\ lastOp.op = "clearChat"
    /\ lastOp.wasLoading
    /\ isLoading
    /\ Len(requests) = 1
    /\ messages = <<>>

\* The step is an accepted send of the draft from an idle state: the user
\* message with the draft's text is appended and pending is set.
C6_AcceptedSend ==
    (SendStep /\ ~isLoading /\ ~IsBlank(input)) =>
        /\ RoleText(messages') = Append(RoleText(messages), <<"user", input>>)
        /\ isLoading'
        /\ Len(requests') = 1

\* The conversation is still what the outstanding request was sent with: no
\* clear has happened since the send.
NotClearedSinceSend ==
    /\ Len(requests) = 1
    /\ RoleText(messages) = Carried(requests[1])

\* C6 (as stated): an accepted send of t from idle conversation c gives
\* c ++ [user:t] with pending = true, and a success with any text r, with no
\* clear in between, gives c ++ [user:t, model:r] with pending = false.
C6_Original ==
    /\ [][C6_AcceptedSend]_vars
    /\ [][(SuccessStep /\ lastOp'.response.hasText /\ NotClearedSinceSend) =>
             /\ RoleText(messages') =
                    Append(Carried(requests[1]), <<"model", lastOp'.response.text>>)
             /\ ~isLoading']_vars

\* C6 (amended): an accepted send of t from idle conversation c gives
\* c ++ [user:t] with pending = true, and a success with a non-empty text r,
\* with no clear in between, gives c ++ [user:t, model:r] with pending = false.
C6_SendThenReply ==
    /\ [][C6_AcceptedSend]_vars
    /\ [][(SuccessStep /\ lastOp'.response.hasText /\ lastOp'.response.text # <<>>
                /\ NotClearedSinceSend) =>
             /\ RoleText(messages') =
                    Append(Carried(requests[1]), <<"model", lastOp'.response.text>>)
             /\ ~isLoading']_vars

\* A draft with leading whitespace was sent from the empty conversation and
\* the call succeeded with a non-empty text: user message, then model message.
C6_Witness ==
    /\ lastOp.op = "success"
    /\ lastOp.response = [hasText |-> TRUE, text |-> <<"h">>]
    /\ RoleText(messages) = << <<"user", <<WS, "a">> >>, <<"model", <<"h">> >> >>
    /\ ~isLoading

\* C7: a failure of the remote call, of whatever kind, appends exactly one
\* model-role message with the fixed error text, sets pending = false and does
\* not leave handleSend as a failure; with no clear since the send of t from
\* c the conversation becomes c ++ [user:t, model:<error text>].
C7_FailureAppendsError ==
    /\ [][FailureStep =>
             /\ RoleText(messages') = Append(RoleText(messages), <<"model", ErrorText>>)
             /\ ~isLoading'
             /\ ~escaped']_vars
    /\ [][(FailureStep /\ NotClearedSinceSend) =>
             RoleText(messages') =
                 Append(Carried(requests[1]), <<"model", ErrorText>>)]_vars

\* A send from the empty conversation failed with a malformed response.
C7_Witness ==
    /\ lastOp.op = "failure"
    /\ lastOp.kind = "malformed"
    /\ RoleText(messages) = << <<"user", <<"a">> >>, <<"model", ErrorText>> >>
    /\ ~isLoading
    /\ ~escaped

\* C8: a success whose response has no text appends one model-role message
\* with the fixed fallback text, which is not the error text, sets
\* pending = false, and is not handled as a failure.
C8_NoTextGivesFallback ==
    [][(SuccessStep /\ ~lastOp'.response.hasText) =>
          /\ RoleText(messages') = Append(RoleText(messages), <<"model", FallbackText>>)
          /\ FallbackText # ErrorText
          /\ ~isLoading'
          /\ escaped' = escaped]_vars

\* A send from the empty conversation succeeded with a response without text.
C8_Witness ==
    /\ lastOp.op = "success"
    /\ ~lastOp.response.hasText
    /\ Len(messages) = 2
    /\ messages[1].role = "user"
    /\ messages[2].text = FallbackText
    /\ ~isLoading

\* C9: if the remote call eventually settles, pending = true leads to
\* pending = false, whatever happens during the wait.
C9_PendingLeadsToIdle == isLoading ~> ~isLoading

\* A request completed after the conversation was cleared and a draft was
\* typed during the wait: the system is idle again.
C9_Witness ==
    /\ lastOp.op \in {"success", "failure"}
    /\ lastOp.wasLoading
    /\ ~isLoading
    /\ cleared
    /\ Len(messages) = 1
    /\ ~IsBlank(input)

\* C10: pending is true exactly when a request is outstanding; pending is
\* set only by an accepted send, which issues the request, and reset only by
\* the completion of that request; every completion resets it and appends
\* one message.
C10_PendingIffOutstanding ==
    /\ [](/\ isLoading \in BOOLEAN
          /\ isLoading <=> Len(requests) = 1
          /\ ~isLoading <=> requests = <<>>)
    /\ [][(~isLoading /\ isLoading') =>
             (SendStep /\ ~IsBlank(input) /\ Len(requests') = Len(requests) + 1)]_vars
    /\ [][(isLoading /\ ~isLoading') =>
             ((SuccessStep \/ FailureStep) /\ Len(requests') = Len(requests) - 1)]_vars
    /\ [][(SuccessStep \/ FailureStep) =>
             (isLoading /\ ~isLoading' /\ Len(messages') = Len(messages) + 1)]_vars

\* Two request cycles have run with no clear; the second ended by failure and
\* the system is idle with nothing outstanding.
C10_Witness ==
    /\ lastOp.op = "failure"
    /\ ~cleared
    /\ nResolved = 2
    /\ ~isLoading
    /\ requests = <<>>

\* C11: a response that arrives after the conversation was cleared is not
\* discarded: a completion, by success or by failure, on the emptied
\* conversation leaves a conversation of one model-role message, with no user
\* message before it.
C11_LateResponseAppends ==
    [][((SuccessStep \/ FailureStep) /\ messages = <<>>) =>
          /\ Len(messages') = 1
          /\ messages'[1].role = "model"]_vars

\* Send, clear while pending, then success: the conversation is one
\* model-role message.
C11_Witness ==
    /\ lastOp.op = "success"
    /\ cleared
    /\ Len(messages) = 1
    /\ messages[1].role = "model"
    /\ messages[1].text = <<"h">>
    /\ ~isLoading

\* C12: every step leaves the conversation unchanged, extends it by one
\* message at the end with the previous sequence as an unchanged prefix, or
\* empties it.
C12_AppendOnlyOrClear ==
    [][\/ messages' = messages
       \/ /\ Len(messages') = Len(messages) + 1
          /\ SubSeq(messages', 1, Len(messages)) = messages
       \/ messages' = <<>>]_vars

\* A conversation that was cleared and has since grown again by two appends.
C12_Witness ==
    /\ cleared
    /\ lastOp.op = "failure"
    /\ Len(messages) = 2
    /\ messages[1].role = "user"

\* C13: the request issued by an accepted send carries the (role, text)
\* pairs of the conversation as it is right after the user message was
\* appended, in order, the new user message last.
C13_RequestCarriesHistory ==
    [][(SendStep /\ requests' # requests) =>
          /\ Len(requests') = Len(requests) + 1
          /\ Carried(requests'[Len(requests')]) = RoleText(messages')
          /\ Carried(requests'[Len(requests')]) =
                 Append(RoleText(messages), <<"user", input>>)]_vars

\* After a clear while pending and the late response, a send was accepted: its
\* request carries the late model message and the new user message.
C13_Witness ==
    /\ lastOp.op = "handleSend"
    /\ isLoading
    /\ Len(requests) = 1
    /\ Len(messages) = 2
    /\ messages[1].role = "model"
    /\ Carried(requests[1]) = << <<"model", ErrorText>>, <<"user", <<"a">> >> >>

\* C14: the submit control is disabled exactly when pending is true or the
\* draft is empty or whitespace only; a send attempt while it is enabled is
\* accepted, and a send attempt while it is disabled, by any trigger, is
\* rejected.
C14_DisabledIffRejected ==
    /\ [](disabled <=> (isLoading \/ IsBlank(input)))
    /\ [][(SendStep /\ ~disabled) =>
             /\ Len(messages') = Len(messages) + 1
             /\ isLoading'
             /\ Len(requests') = Len(requests) + 1]_vars
    /\ [][(SendStep /\ disabled) =>
             UNCHANGED <<messages, input, isLoading, requests>>]_vars

\* Enter was pressed with a sendable draft while the control was disabled by
\* a pending request: nothing was sent.
C14_Witness ==
    /\ lastOp.op = "handleSend"
    /\ lastOp.trigger = "Enter"
    /\ lastOp.wasLoading
    /\ disabled
    /\ input = <<WS, "a">>
    /\ Len(requests) = 1

\* C15: the loading indicator is displayed exactly when pending is true, in
\* every reachable state.
C15_IndicatorIffPending == indicatorShown <=> isLoading

\* C16: all messages of the conversation have pairwise distinct ids.
C16_IdsUnique ==
    \A i, j \in 1..Len(messages) : i # j => messages[i].id # messages[j].id

\* C17: a clear while a request is pending leaves the pending flag, the draft
\* and the outstanding request unchanged; if the remote call settles, that
\* request then completes, appending its message to the emptied conversation
\* and resetting pending.
C17_ClearKeepsRequest ==
    /\ [][(ClearStep /\ isLoading) =>
             UNCHANGED <<isLoading, input, requests>>]_vars
    /\ [][((SuccessStep \/ FailureStep) /\ lastOp.op = "clearChat") =>
             /\ messages' = Append(messages, messages'[Len(messages')])
             /\ Len(requests') = Len(requests) - 1
             /\ ~isLoading']_vars
    /\ (lastOp.op = "clearChat" /\ isLoading) ~> (~isLoading /\ messages # <<>>)

\* The clear button was pressed while a request was pending and a draft was
\* being typed: the request is still outstanding and the draft is kept.
C17_Witness ==
    /\ lastOp.op = "clearChat"
    /\ lastOp.wasLoading
    /\ isLoading
    /\ Len(requests) = 1
    /\ input = <<"a", WS>>
    /\ messages = <<>>

\* C18: no two adjacent messages of the conversation have the same role, and
\* when the system is idle the conversation is empty or ends with a
\* model-role message.
C18_RolesAlternate ==
    /\ \A i \in 1..(Len(messages) - 1) : messages[i].role # messages[i + 1].role
    /\ ~isLoading => (messages = <<>> \/ messages[Len(messages)].role = "model")

\* After a clear while pending the conversation starts with the late model
\* message; a further send has resolved and the system is idle.
C18_Witness ==
    /\ Len(messages) = 3
    /\ messages[1].role = "model"
    /\ messages[2].role = "user"
    /\ messages[3].role = "model"
    /\ ~isLoading

\* C19: no stored message has empty text: a user message's text has a
\* non-whitespace character and is the draft as typed, and a model-role
\* message's text is non-empty, the fallback text standing in for a response
\* text that is absent or empty.
C19_NoEmptyText ==
    /\ [](\A i \in 1..Len(messages) :
             /\ messages[i].text # <<>>
             /\ messages[i].role = "user" => ~IsBlank(messages[i].text))
    /\ [][(SendStep /\ messages' # messages) =>
             messages'[Len(messages')].text = input]_vars
    /\ [][(SuccessStep /\ (~lastOp'.response.hasText \/ lastOp'.response.text = <<>>)) =>
             messages'[Len(messages')].text = FallbackText]_vars

\* A draft with trailing whitespace was stored as typed and the call succeeded
\* with the empty string as text: the model message carries the fallback text.
C19_Witness ==
    /\ lastOp.op = "success"
    /\ lastOp.response = [hasText |-> TRUE, text |-> <<>>]
    /\ Len(messages) = 2
    /\ messages[1].text = <<"a", WS>>
    /\ messages[2].text = FallbackText

\* C20: an accepted send empties the draft in the step that appends the user
\* message and sets pending; a rejected send leaves the draft unchanged; the
\* draft can be edited to any text while a request is pending; an edit changes
\* neither the conversation nor the pending flag; a completion leaves the
\* draft unchanged.
C20_DraftLifecycle ==
    /\ [][(SendStep /\ ~isLoading /\ ~IsBlank(input)) =>
             /\ input' = <<>>
             /\ Len(messages') = Len(messages) + 1
             /\ isLoading']_vars
    /\ [][(SendStep /\ (isLoading \/ IsBlank(input))) => input' = input]_vars
    /\ [](isLoading => \A v \in Texts : ENABLED (onChange /\ input' = v))
    /\ [][EditStep => UNCHANGED <<messages, isLoading, requests>>]_vars
    /\ [][(SuccessStep \/ FailureStep) => input' = input]_vars

\* A draft typed during the wait is still in the input after the completion,
\* with the system idle and the conversation never cleared.
C20_Witness ==
    /\ lastOp.op \in {"success", "failure"}
    /\ lastOp.wasLoading
    /\ ~isLoading
    /\ ~cleared
    /\ Len(messages) = 2
    /\ input = <<WS, "a">>

=============================================================================
